---- MODULE Spec2Model ----
(***************************************************************************)
(* Content-addressable object store (gobject, src/main.go).                *)
(*                                                                         *)
(* The model follows putAtomicStream step by step (one action per          *)
(* filesystem call that another request can observe), the three HTTP       *)
(* handlers that call it or read what it wrote, and the bbolt index.       *)
(* The filesystem is a function from paths to file contents; the index is  *)
(* a function from composite keys to marshalled entries.                   *)
(*                                                                         *)
(* Not modelled: Range / conditional requests of http.ServeContent, the    *)
(* HEAD method (GET without the body), IndexEntry.ModTime (wall clock, no  *)
(* operation of the store reads it back except as a response header) and   *)
(* /healthz.  os.CreateTemp is taken at its documented contract: two       *)
(* in-flight uploads never hold the same staging name.                     *)
(***************************************************************************)
EXTENDS Integers, Sequences, FiniteSets, TLC

(***************************************************************************)
(* Bounds of the model.                                                    *)
(***************************************************************************)
\* Length of the sniff buffer, `var sniff [512]byte` (src/main.go:171), scaled
\* down so that bounded request bodies can be shorter than, equal to and
\* longer than it.
SniffLen == 2
\* Longest request body.
MaxBody == 3
\* Uploads (POST /objects or PUT /{bucket}/{key}) started in one run; all of
\* them may be in flight at once.
MaxReqs == 2
\* Injected failures in one run: storage calls that return an error and
\* client connections that break before the body is complete.
MaxFaults == 1

\* Buffer of io.Copy (io.copyBuffer allocates 32 KiB).
CopyBuf == 32 * 1024

Min(a, b) == IF a < b THEN a ELSE b

(***************************************************************************)
(* Request bodies: the prefixes of one file.  0x61 ("a") is a byte that    *)
(* http.DetectContentType treats as text, 0x00 one that it treats as       *)
(* binary, so the bodies are empty, shorter than the sniff buffer, as long *)
(* as it and longer, and both media types occur.                           *)
(***************************************************************************)
Upload == <<97, 0, 97, 0>>

Bodies == {SubSeq(Upload, 1, n) : n \in 0..MaxBody}

(***************************************************************************)
(* sha256 + hex.EncodeToString (src/main.go:153, 197-198).  The digest is  *)
(* not computed in TLA+: the table holds the real lowercase hex SHA-256 of *)
(* every sequence of the bytes 0x00 and 0x61 of length at most 4, one character per   *)
(* element.                                                                *)
(***************************************************************************)
Sha256Table ==
       (<<>> :>
         <<"e","3","b","0","c","4","4","2","9","8","f","c","1","c","1","4","9","a","f","b","f","4","c","8","9","9","6","f","b","9","2","4","2","7","a","e","4","1","e","4","6","4","9","b","9","3","4","c","a","4","9","5","9","9","1","b","7","8","5","2","b","8","5","5">>)
    @@ (<<0>> :>
         <<"6","e","3","4","0","b","9","c","f","f","b","3","7","a","9","8","9","c","a","5","4","4","e","6","b","b","7","8","0","a","2","c","7","8","9","0","1","d","3","f","b","3","3","7","3","8","7","6","8","5","1","1","a","3","0","6","1","7","a","f","a","0","1","d">>)
    @@ (<<97>> :>
         <<"c","a","9","7","8","1","1","2","c","a","1","b","b","d","c","a","f","a","c","2","3","1","b","3","9","a","2","3","d","c","4","d","a","7","8","6","e","f","f","8","1","4","7","c","4","e","7","2","b","9","8","0","7","7","8","5","a","f","e","e","4","8","b","b">>)
    @@ (<<0, 0>> :>
         <<"9","6","a","2","9","6","d","2","2","4","f","2","8","5","c","6","7","b","e","e","9","3","c","3","0","f","8","a","3","0","9","1","5","7","f","0","d","a","a","3","5","d","c","5","b","8","7","e","4","1","0","b","7","8","6","3","0","a","0","9","c","f","c","7">>)
    @@ (<<0, 97>> :>
         <<"0","2","2","a","6","9","7","9","e","6","d","a","b","7","a","a","5","a","e","4","c","3","e","5","e","4","5","f","7","e","9","7","7","1","1","2","a","7","e","6","3","5","9","3","8","2","0","d","b","e","c","1","e","c","7","3","8","a","2","4","f","9","3","c">>)
    @@ (<<97, 0>> :>
         <<"f","f","e","9","a","a","e","a","a","2","a","2","d","5","0","4","8","1","7","4","d","f","0","b","8","0","5","9","9","e","f","0","1","9","7","e","c","0","2","4","c","4","b","0","5","1","b","c","9","8","6","0","c","f","f","5","8","e","f","7","f","9","f","3">>)
    @@ (<<97, 97>> :>
         <<"9","6","1","b","6","d","d","3","e","d","e","3","c","b","8","e","c","b","a","a","c","b","d","6","8","d","e","0","4","0","c","d","7","8","e","b","2","e","d","5","8","8","9","1","3","0","c","c","e","b","4","c","4","9","2","6","8","e","a","4","d","5","0","6">>)
    @@ (<<0, 0, 0>> :>
         <<"7","0","9","e","8","0","c","8","8","4","8","7","a","2","4","1","1","e","1","e","e","4","d","f","b","9","f","2","2","a","8","6","1","4","9","2","d","2","0","c","4","7","6","5","1","5","0","c","0","c","7","9","4","a","b","d","7","0","f","8","1","4","7","c">>)
    @@ (<<0, 0, 97>> :>
         <<"d","4","c","b","5","3","3","4","d","c","a","b","b","c","a","f","f","5","6","b","f","c","7","8","7","0","6","f","0","4","1","b","7","2","c","0","d","2","9","3","3","7","d","b","8","7","d","8","c","8","5","d","4","e","1","a","a","f","9","f","e","a","3","a">>)
    @@ (<<0, 97, 0>> :>
         <<"9","8","f","b","6","3","f","7","2","1","2","b","b","7","a","7","3","8","d","1","c","d","6","d","6","d","5","1","d","3","e","9","6","1","6","9","b","2","3","7","1","0","a","e","5","1","1","3","c","6","5","1","2","3","f","0","2","9","0","7","4","8","6","0">>)
    @@ (<<0, 97, 97>> :>
         <<"3","f","2","3","0","e","7","4","0","6","1","c","8","0","0","7","2","6","a","6","1","1","f","5","8","6","d","c","f","7","d","7","3","9","c","b","c","8","3","9","5","9","5","5","6","a","3","4","2","0","3","d","3","4","f","7","c","b","a","5","6","2","c","7">>)
    @@ (<<97, 0, 0>> :>
         <<"e","a","6","f","d","e","9","e","8","4","0","d","2","4","0","a","4","f","5","d","f","3","d","8","5","b","5","a","d","6","1","8","3","0","6","0","0","5","7","b","d","1","8","d","f","f","9","c","4","5","3","b","a","4","0","6","1","1","1","7","f","8","3","b">>)
    @@ (<<97, 0, 97>> :>
         <<"1","d","e","2","f","1","d","7","3","c","c","c","5","9","6","4","e","0","b","a","1","8","6","e","1","e","c","e","2","9","1","3","0","4","f","8","d","9","7","c","f","7","8","c","5","1","4","5","a","a","9","6","8","d","5","8","8","4","7","a","9","f","f","6">>)
    @@ (<<97, 97, 0>> :>
         <<"b","5","a","c","6","3","3","c","c","f","6","2","1","3","1","2","e","2","3","8","c","c","e","0","4","8","7","a","2","2","8","d","5","b","2","8","a","5","e","2","2","6","4","5","7","d","f","c","c","1","1","8","8","4","8","e","f","7","5","c","4","d","2","d">>)
    @@ (<<97, 97, 97>> :>
         <<"9","8","3","4","8","7","6","d","c","f","b","0","5","c","b","1","6","7","a","5","c","2","4","9","5","3","e","b","a","5","8","c","4","a","c","8","9","b","1","a","d","f","5","7","f","2","8","f","2","f","9","d","0","9","a","f","1","0","7","e","e","8","f","0">>)
    @@ (<<0, 0, 0, 0>> :>
         <<"d","f","3","f","6","1","9","8","0","4","a","9","2","f","d","b","4","0","5","7","1","9","2","d","c","4","3","d","d","7","4","8","e","a","7","7","8","a","d","c","5","2","b","c","4","9","8","c","e","8","0","5","2","4","c","0","1","4","b","8","1","1","1","9">>)
    @@ (<<0, 0, 0, 97>> :>
         <<"d","2","f","e","b","f","3","0","7","9","d","6","4","f","c","c","4","8","2","0","5","8","8","5","b","6","6","9","7","4","f","b","e","c","a","c","6","1","6","2","a","3","e","7","5","7","6","1","b","0","8","2","c","2","2","8","e","3","6","4","d","d","7","e">>)
    @@ (<<0, 0, 97, 0>> :>
         <<"9","8","2","b","f","3","c","4","1","9","3","4","4","6","3","8","e","e","8","6","c","a","5","c","4","e","4","d","a","0","3","e","9","9","a","f","6","6","d","9","3","7","c","f","6","4","4","f","f","6","5","f","9","b","8","4","f","b","2","7","8","c","8","3">>)
    @@ (<<0, 0, 97, 97>> :>
         <<"3","5","9","c","6","b","c","b","d","d","9","1","1","5","4","f","4","9","6","d","b","8","3","7","3","d","f","9","3","6","7","f","1","8","4","9","3","1","f","f","2","4","1","8","c","2","2","8","6","e","0","f","8","7","6","b","9","a","f","c","3","7","2","1">>)
    @@ (<<0, 97, 0, 0>> :>
         <<"5","5","0","e","8","0","a","9","1","2","5","2","3","2","7","7","5","3","8","c","f","c","9","2","7","e","2","d","5","d","2","8","2","9","e","3","6","d","0","1","d","8","4","f","f","5","f","9","b","7","9","5","8","4","e","2","9","a","1","6","5","c","4","0">>)
    @@ (<<0, 97, 0, 97>> :>
         <<"a","d","d","a","f","f","3","8","2","b","d","d","4","1","3","f","f","5","9","c","9","1","3","c","e","e","6","5","5","d","6","5","0","d","c","f","f","3","d","0","8","0","d","0","7","0","f","9","7","7","b","c","6","9","5","a","8","9","9","c","0","e","6","1">>)
    @@ (<<0, 97, 97, 0>> :>
         <<"9","1","6","5","1","c","8","3","1","0","6","8","6","2","b","e","e","9","b","b","9","d","f","0","6","f","4","0","3","8","f","4","b","2","8","e","d","4","f","8","f","b","a","6","5","6","c","2","7","c","f","d","b","9","8","b","6","0","0","6","c","6","a","8">>)
    @@ (<<0, 97, 97, 97>> :>
         <<"a","a","5","8","d","2","b","0","b","e","1","d","b","a","d","f","2","1","6","1","9","6","4","5","c","9","2","4","5","0","6","2","a","2","8","3","c","1","9","a","6","7","0","1","b","f","e","0","7","d","0","7","c","c","2","4","4","1","6","8","7","c","8","5">>)
    @@ (<<97, 0, 0, 0>> :>
         <<"a","2","d","3","9","8","9","2","2","9","0","1","3","4","4","d","0","8","1","8","0","d","c","4","1","d","3","e","9","d","7","3","d","8","c","1","4","8","c","7","f","6","e","0","9","2","8","3","5","b","b","b","2","8","e","0","2","d","b","c","f","1","8","4">>)
    @@ (<<97, 0, 0, 97>> :>
         <<"d","d","6","1","f","1","3","c","7","7","a","9","8","2","3","e","b","2","0","e","b","9","d","b","9","9","9","7","b","6","a","4","5","c","5","9","b","f","0","0","5","1","3","9","f","b","5","0","9","4","4","c","d","3","4","2","e","1","9","9","7","f","c","0">>)
    @@ (<<97, 0, 97, 0>> :>
         <<"7","d","8","e","6","1","1","1","7","e","9","a","1","a","b","2","8","0","8","f","2","9","5","5","4","6","6","6","1","f","9","2","1","b","b","e","7","e","2","0","c","0","1","5","8","c","7","e","8","1","b","5","d","1","c","1","3","6","5","4","b","4","5","7">>)
    @@ (<<97, 0, 97, 97>> :>
         <<"8","d","c","3","4","5","a","7","2","c","3","0","1","5","3","6","a","e","a","a","8","3","3","0","1","1","a","b","6","5","9","5","c","c","d","3","1","5","6","0","f","c","3","7","0","6","3","f","7","4","1","4","b","1","3","e","1","7","7","7","b","a","7","7">>)
    @@ (<<97, 97, 0, 0>> :>
         <<"f","2","b","7","8","1","5","8","a","6","4","c","5","b","1","1","c","d","4","9","1","2","0","f","6","8","9","a","1","8","1","1","5","1","7","5","6","5","8","0","1","1","8","8","d","0","0","0","a","1","f","b","6","b","2","4","a","5","1","b","2","1","7","2">>)
    @@ (<<97, 97, 0, 97>> :>
         <<"1","6","4","a","2","1","a","f","c","3","3","b","4","b","a","4","c","d","8","0","b","2","d","f","3","c","1","3","c","3","0","a","9","1","5","4","1","b","2","e","1","d","9","4","e","5","8","f","1","f","c","b","9","2","f","7","2","d","9","b","e","6","9","1">>)
    @@ (<<97, 97, 97, 0>> :>
         <<"7","4","9","8","f","9","2","f","c","4","c","b","4","c","9","4","8","2","0","2","e","2","d","a","4","e","2","f","0","3","9","b","5","d","e","3","d","5","c","4","8","3","e","6","2","9","a","a","5","4","8","8","c","e","d","1","0","a","5","b","0","1","e","a">>)
    @@ (<<97, 97, 97, 97>> :>
         <<"6","1","b","e","5","5","a","8","e","2","f","6","b","4","e","1","7","2","3","3","8","b","d","d","f","1","8","4","d","6","d","b","e","e","2","9","c","9","8","8","5","3","e","0","a","0","4","8","5","e","c","e","e","7","f","2","7","b","9","a","f","0","b","4">>)

\* h.Write(p) on the running hash: the hash state is the bytes fed so far.
HashWrite(h, p) == h \o p

\* hex.EncodeToString(h.Sum(nil))
HexSum(h) == Sha256Table[h]

HexChars == {"0","1","2","3","4","5","6","7","8","9","a","b","c","d","e","f"}

\* Mutant: only the length of the id is checked.
IdReMatchLengthOnly(id) == Len(id) = 64

\* idRe = ^[0-9a-f]{64}$
IdReMatch(id) == Len(id) = 64 /\ \A k \in 1..Len(id) : id[k] \in HexChars

(***************************************************************************)
(* http.DetectContentType (src/main.go:176).  Of net/http's signature      *)
(* table only the last entry, textSig, can match data of the bytes 0x00 and 0x61 shorter   *)
(* than 12 bytes: it yields text/plain unless a byte after the leading     *)
(* whitespace is a binary data byte; the fallback is octet-stream.         *)
(***************************************************************************)
IsWS(b) == b \in {9, 10, 12, 13, 32}

IsBinaryByte(b) ==
    \/ b <= 8
    \/ b = 11
    \/ (14 <= b /\ b <= 26)
    \/ (28 <= b /\ b <= 31)

RECURSIVE FirstNonWS(_, _)
FirstNonWS(data, k) ==
    IF k <= Len(data) /\ IsWS(data[k]) THEN FirstNonWS(data, k + 1) ELSE k

DetectContentType(data) ==
    LET first == FirstNonWS(data, 1)
    IN  IF \E k \in first..Len(data) : IsBinaryByte(data[k])
        THEN "application/octet-stream"
        ELSE "text/plain; charset=utf-8"

(***************************************************************************)
(* Paths under storeDir and the contents of the small JSON files.          *)
(***************************************************************************)
\* filepath.Join(storeDir, id+".blob")
FinalPath(id) == [dir |-> "store", base |-> id, ext |-> ".blob"]
\* filepath.Join(storeDir, id+".meta.json")
MetaPath(id) == [dir |-> "store", base |-> id, ext |-> ".meta.json"]
\* os.CreateTemp(tmpDir, "put-*.tmp"): n stands for the random part
TmpPath(n) == [dir |-> "tmp", base |-> <<ToString(n)>>, ext |-> ".tmp"]

\* A file that was created or truncated and not written yet.
EmptyFile == <<>>

\* json.Marshal(Meta{ContentType: ct, Size: size})
MarshalMeta(ct, size) == <<"json", [content_type |-> ct, size |-> size]>>

\* Mutant: the entry records no size.
MarshalEntryNoSize(sha, size, ct) ==
    <<"json", [sha |-> sha, size |-> 0, content_type |-> ct]>>

\* json.Marshal(IndexEntry{SHA, Size, ContentType, ModTime}) without ModTime
MarshalEntry(sha, size, ct) ==
    <<"json", [sha |-> sha, size |-> size, content_type |-> ct]>>

\* json.Unmarshal: fails on anything that is not a whole JSON document
UnmarshalOk(bytes) == Len(bytes) = 2 /\ bytes[1] = "json"
Unmarshal(bytes) == bytes[2]

(***************************************************************************)
(* URL paths, as sequences of one-character strings.                       *)
(***************************************************************************)
\* strings.TrimPrefix(r.URL.Path, "/")
TrimPrefix(s) == IF Len(s) > 0 /\ s[1] = "/" THEN Tail(s) ELSE s

\* strings.SplitN(path, "/", 2)
SplitN2(s) ==
    LET hits == {k \in 1..Len(s) : s[k] = "/"}
    IN  IF hits = {} THEN <<s>>
        ELSE LET k == CHOOSE m \in hits : \A j \in hits : m <= j
             IN  <<SubSeq(s, 1, k - 1), SubSeq(s, k + 1, Len(s))>>

\* indexKey := []byte(bucket + "/" + key)
IndexKey(parts) == parts[1] \o <<"/">> \o parts[2]

\* The paths requests to handleObjectByKey carry: two names of bucket x, one
\* path with no separator and one path whose key segment is empty.
NamedPaths ==
    { <<"/", "x", "/", "y">>, <<"/", "x", "/", "z">>, <<"/", "x">>, <<"/", "x", "/">> }

(***************************************************************************)
(* State.                                                                  *)
(***************************************************************************)
VARIABLES
    fs,      \* the files under storeDir: path -> content
    index,   \* bucket "objects" of index.db: composite key -> marshalled entry
    req,     \* the uploads: request number -> locals of its handler
    faults   \* failures injected so far

vars == <<fs, index, req, faults>>

Reqs == 1..MaxReqs

\* How the client's connection behaves: "ok" delivers the whole body and a
\* clean EOF; the others deliver `cut` bytes and then break.
\*   "closed"       peer closed, body framed by Content-Length
\*   "chunk_closed" peer closed, chunked body
\*   "reset"        connection reset
Conns == {"ok", "closed", "chunk_closed", "reset"}

Idle ==
    [pc |-> "idle", method |-> "", path |-> <<>>, body |-> <<>>, conn |-> "ok",
     cut |-> 0, off |-> 0, sawEOF |-> FALSE, n0 |-> 0, n |-> 0, ct |-> "",
     h |-> <<>>, id |-> <<>>, size |-> 0, err |-> "nil", status |-> 0,
     sawFinal |-> "", sawMeta |-> "", renamed |-> FALSE, wroteMeta |-> FALSE,
     sidecar |-> "", indexed |-> FALSE]

Init ==
    /\ fs = << >>
    /\ index = << >>
    /\ req = [i \in Reqs |-> Idle]
    /\ faults = 0

(***************************************************************************)
(* Filesystem and index primitives.                                        *)
(***************************************************************************)
Exists(files, path) == path \in DOMAIN files

\* create or truncate `path`, or replace its content
WriteAt(files, path, content) ==
    [p \in DOMAIN files \cup {path} |-> IF p = path THEN content ELSE files[p]]

\* os.Remove(path); an absent path is an error the caller ignores
Remove(files, path) == [p \in DOMAIN files \ {path} |-> files[p]]

\* os.Rename(old, new): new names old's file, replacing what it named before
Rename(files, old, new) ==
    [p \in (DOMAIN files \ {old}) \cup {new} |-> IF p = new THEN files[old] ELSE files[p]]

\* b.Put(indexKey, val) inside indexDB.Update
IndexPut(idx, key, val) ==
    [k \in DOMAIN idx \cup {key} |-> IF k = key THEN val ELSE idx[k]]

\* Mutant: the delete empties the bucket.
IndexDeleteAll(idx, key) == [k \in {} |-> idx[k]]

\* b.Delete(indexKey) inside indexDB.Update
IndexDelete(idx, key) == [k \in DOMAIN idx \ {key} |-> idx[k]]

\* What a reader sees of the sidecar of id: "absent", "empty" or "whole".
SidecarState(files, id) ==
    IF ~Exists(files, MetaPath(id)) THEN "absent"
    ELSE IF UnmarshalOk(files[MetaPath(id)]) THEN "whole" ELSE "empty"

(***************************************************************************)
(* The request body as an io.Reader (r.Body, src/main.go:72 and 263).      *)
(***************************************************************************)
\* One Read(p) with len(p) = max.  net/http's body reader reports a peer
\* that closed early as io.ErrUnexpectedEOF; with Content-Length framing it
\* then remembers the EOF and answers io.EOF to every later Read, with
\* chunked framing the error sticks.
Read(r, max) ==
    LET avail == r.cut - r.off
    IN  IF r.sawEOF THEN [n |-> 0, err |-> "EOF", sawEOF |-> TRUE]
        ELSE IF avail > 0 THEN [n |-> Min(avail, max), err |-> "nil", sawEOF |-> FALSE]
        ELSE IF r.conn = "ok" THEN [n |-> 0, err |-> "EOF", sawEOF |-> TRUE]
        ELSE IF r.conn = "closed" THEN [n |-> 0, err |-> "ErrUnexpectedEOF", sawEOF |-> TRUE]
        ELSE IF r.conn = "chunk_closed"
             THEN [n |-> 0, err |-> "ErrUnexpectedEOF", sawEOF |-> FALSE]
        ELSE [n |-> 0, err |-> "ECONNRESET", sawEOF |-> FALSE]

\* io.ReadFull(r, buf) = io.ReadAtLeast(r, buf, len(buf)) with len(buf) = min:
\* reads until min bytes or an error; an EOF after some bytes becomes
\* io.ErrUnexpectedEOF, an error after min bytes is dropped.
ReadFull(r, min) ==
    LET first == Read(r, min)
        r1    == [r EXCEPT !.off = @ + first.n, !.sawEOF = first.sawEOF]
        n     == first.n
    IN  IF n >= min THEN [n |-> n, err |-> "nil", sawEOF |-> r1.sawEOF]
        ELSE LET more == IF first.err = "nil" THEN Read(r1, min - n) ELSE first
             IN  [n |-> n,
                  err |-> IF n > 0 /\ more.err = "EOF" THEN "ErrUnexpectedEOF" ELSE more.err,
                  sawEOF |-> more.sawEOF]

\* Mutant: the sniffed bytes are not counted.
TotalSizeCopiedOnly(n0, n) == n

\* size after io.Copy: size += int64(n0); size += n
TotalSize(n0, n) == n0 + n

\* Mutant: the sniffed prefix is written to the file and not to the hash.
HashSniffedSkipped(h, data) == h

\* h.Write(sniff[:n0]) (src/main.go:183): the sniffed prefix enters the hash
HashSniffed(h, data) == HashWrite(h, data)

ObjectsPath == <<"/", "o", "b", "j", "e", "c", "t", "s">>

\* handleObjectByKey accepts the path: len(parts) == 2
PathOk(path) == Len(SplitN2(TrimPrefix(path))) = 2

(***************************************************************************)
(* Uploads: POST /objects (src/main.go:64-82) and PUT /{bucket}/{key}      *)
(* (src/main.go:248-288), both through putAtomicStream (152-234).          *)
(***************************************************************************)
\* The handler is entered and putAtomicStream creates its staging file
\* (MkdirAll, CreateTemp).  A PUT whose path does not split in two is
\* answered 400 before that.
Start(i) ==
    /\ req[i].pc = "idle"
    /\ (i > 1 => req[i - 1].pc # "idle")
    /\ \E method \in {"POST", "PUT"}, body \in Bodies, conn \in Conns :
       \E path \in (IF method = "POST" THEN {ObjectsPath} ELSE NamedPaths) :
       \E cut \in (IF conn = "ok" THEN {Len(body)} ELSE 0..(Len(body) - 1)) :
          LET used == IF conn = "ok" THEN 0 ELSE 1
              r0   == [Idle EXCEPT !.method = method, !.path = path, !.body = body,
                                   !.conn = conn, !.cut = cut]
          IN  /\ faults + used <= MaxFaults
              /\ \/ /\ method = "PUT" /\ ~PathOk(path)
                    /\ req' = [req EXCEPT ![i] = [r0 EXCEPT !.pc = "done", !.status = 400]]
                    /\ faults' = faults + used
                    /\ UNCHANGED fs
                 \/ /\ method = "POST" \/ PathOk(path)
                    /\ fs' = WriteAt(fs, TmpPath(i), EmptyFile)
                    /\ req' = [req EXCEPT ![i] = [r0 EXCEPT !.pc = "sniff"]]
                    /\ faults' = faults + used
                 \/ /\ method = "POST" \/ PathOk(path)
                    /\ faults + used < MaxFaults            \* MkdirAll or CreateTemp fails
                    /\ req' = [req EXCEPT ![i] =
                                  [r0 EXCEPT !.pc = "done", !.err = "EIO", !.status = 500]]
                    /\ faults' = faults + used + 1
                    /\ UNCHANGED fs
    /\ UNCHANGED index

\* io.ReadFull into the sniff buffer, DetectContentType, and the sniffed
\* bytes written to the staging file and the hash (src/main.go:170-187).
Sniff(i) ==
    LET r    == req[i]
        rf   == ReadFull(r, SniffLen)
        data == SubSeq(r.body, r.off + 1, r.off + rf.n)
        r1   == [r EXCEPT !.off = @ + rf.n, !.sawEOF = rf.sawEOF, !.n0 = rf.n]
        ok   == rf.err \in {"nil", "ErrUnexpectedEOF"}
    IN  /\ r.pc = "sniff"
        /\ UNCHANGED index
        /\ \/ /\ ~ok
              /\ req' = [req EXCEPT ![i] = [r1 EXCEPT !.pc = "return", !.err = rf.err]]
              /\ UNCHANGED <<fs, faults>>
           \/ /\ ok /\ rf.n = 0
              /\ req' = [req EXCEPT ![i] =
                            [r1 EXCEPT !.pc = "copy", !.ct = DetectContentType(data)]]
              /\ UNCHANGED <<fs, faults>>
           \/ /\ ok /\ rf.n > 0
              /\ fs' = WriteAt(fs, TmpPath(i), fs[TmpPath(i)] \o data)
              /\ req' = [req EXCEPT ![i] =
                            [r1 EXCEPT !.pc = "copy", !.ct = DetectContentType(data),
                                       !.h = HashSniffed(@, data)]]
              /\ UNCHANGED faults
           \/ /\ ok /\ rf.n > 0
              /\ faults < MaxFaults                         \* f.Write fails
              /\ \E k \in 0..(rf.n - 1) :
                    fs' = WriteAt(fs, TmpPath(i), fs[TmpPath(i)] \o SubSeq(data, 1, k))
              /\ req' = [req EXCEPT ![i] = [r1 EXCEPT !.pc = "return", !.err = "EIO"]]
              /\ faults' = faults + 1

\* One round of io.Copy(io.MultiWriter(f, h), r) (src/main.go:189-195).
Copy(i) ==
    LET r    == req[i]
        rd   == Read(r, CopyBuf)
        data == SubSeq(r.body, r.off + 1, r.off + rd.n)
        r1   == [r EXCEPT !.off = @ + rd.n, !.sawEOF = rd.sawEOF]
    IN  /\ r.pc = "copy"
        /\ UNCHANGED index
        /\ \/ /\ rd.n > 0
              /\ fs' = WriteAt(fs, TmpPath(i), fs[TmpPath(i)] \o data)
              /\ req' = [req EXCEPT ![i] =
                            [r1 EXCEPT !.h = HashWrite(@, data), !.n = @ + rd.n]]
              /\ UNCHANGED faults
           \/ /\ rd.n > 0
              /\ faults < MaxFaults                         \* f.Write fails
              /\ req' = [req EXCEPT ![i] = [r1 EXCEPT !.pc = "return", !.err = "EIO"]]
              /\ faults' = faults + 1
              /\ UNCHANGED fs
           \/ /\ rd.n = 0 /\ rd.err = "EOF"
              /\ req' = [req EXCEPT ![i] =
                            [r1 EXCEPT !.pc = "stat", !.size = TotalSize(r.n0, r.n)]]
              /\ UNCHANGED <<fs, faults>>
           \/ /\ rd.n = 0 /\ rd.err # "EOF"
              /\ req' = [req EXCEPT ![i] = [r1 EXCEPT !.pc = "return", !.err = rd.err]]
              /\ UNCHANGED <<fs, faults>>

\* Mutant: the existence check never finds the blob.
FinalPresentNever(files, id) == FALSE

\* _, err := os.Stat(finalPath); err == nil (src/main.go:204)
FinalPresent(files, id) == Exists(files, FinalPath(id))

\* Mutant: after the existence check the staging file is renamed at once,
\* with no sync and no close before.
StatThenRename(i) ==
    LET r    == req[i]
        id   == HexSum(r.h)
        seen == IF FinalPath(id) \in DOMAIN fs THEN "present" ELSE "absent"
    IN  /\ r.pc = "stat"
        /\ UNCHANGED <<fs, index>>
        /\ \/ /\ FinalPresent(fs, id)
              /\ req' = [req EXCEPT ![i] =
                            [r EXCEPT !.pc = "statmeta", !.id = id, !.sawFinal = seen]]
              /\ UNCHANGED faults
           \/ /\ ~FinalPresent(fs, id)
              /\ req' = [req EXCEPT ![i] =
                            [r EXCEPT !.pc = "rename", !.id = id, !.sawFinal = seen]]
              /\ UNCHANGED faults
           \/ /\ faults < MaxFaults
              /\ req' = [req EXCEPT ![i] =
                            [r EXCEPT !.pc = "return", !.id = id, !.err = "EIO"]]
              /\ faults' = faults + 1

\* id := hex(h.Sum(nil)) and the existence check os.Stat(finalPath)
\* (src/main.go:197-214).  sawFinal notes what was at finalPath when Stat ran.
Stat(i) ==
    LET r    == req[i]
        id   == HexSum(r.h)
        seen == IF FinalPath(id) \in DOMAIN fs THEN "present" ELSE "absent"
    IN  /\ r.pc = "stat"
        /\ UNCHANGED <<fs, index>>
        /\ \/ /\ FinalPresent(fs, id)
              /\ req' = [req EXCEPT ![i] =
                            [r EXCEPT !.pc = "statmeta", !.id = id, !.sawFinal = seen]]
              /\ UNCHANGED faults
           \/ /\ ~FinalPresent(fs, id)
              /\ req' = [req EXCEPT ![i] =
                            [r EXCEPT !.pc = "sync", !.id = id, !.sawFinal = seen]]
              /\ UNCHANGED faults
           \/ /\ faults < MaxFaults                         \* Stat fails, not ENOENT
              /\ req' = [req EXCEPT ![i] =
                            [r EXCEPT !.pc = "return", !.id = id, !.err = "EIO"]]
              /\ faults' = faults + 1

\* The idempotent path: os.Stat(metaPath) (src/main.go:206).  sawMeta notes
\* what was at metaPath when Stat ran ("error" when Stat could not tell).
StatMeta(i) ==
    LET r    == req[i]
        seen == IF MetaPath(r.id) \in DOMAIN fs THEN "present" ELSE "absent"
    IN  /\ r.pc = "statmeta"
        /\ UNCHANGED <<fs, index>>
        /\ \/ /\ ~Exists(fs, MetaPath(r.id))
              /\ req' = [req EXCEPT ![i] = [r EXCEPT !.pc = "heal", !.sawMeta = seen]]
              /\ UNCHANGED faults
           \/ /\ Exists(fs, MetaPath(r.id))
              /\ req' = [req EXCEPT ![i] = [r EXCEPT !.pc = "return", !.sawMeta = seen]]
              /\ UNCHANGED faults
           \/ /\ faults < MaxFaults                         \* Stat fails, not ENOENT
              /\ req' = [req EXCEPT ![i] = [r EXCEPT !.pc = "return", !.sawMeta = "error"]]
              /\ faults' = faults + 1

\* The idempotent path: os.WriteFile(metaPath, b, 0o644) opens the file with
\* O_CREATE|O_TRUNC (src/main.go:207-209); its error is discarded.
Heal(i) ==
    LET r == req[i]
    IN  /\ r.pc = "heal"
        /\ UNCHANGED index
        /\ \/ /\ fs' = WriteAt(fs, MetaPath(r.id), EmptyFile)
              /\ req' = [req EXCEPT ![i] = [r EXCEPT !.pc = "healwrite"]]
              /\ UNCHANGED faults
           \/ /\ faults < MaxFaults                         \* open fails
              /\ req' = [req EXCEPT ![i] = [r EXCEPT !.pc = "return"]]
              /\ faults' = faults + 1
              /\ UNCHANGED fs

\* The idempotent path: os.WriteFile writes the record and closes.
HealWrite(i) ==
    LET r == req[i]
    IN  /\ r.pc = "healwrite"
        /\ UNCHANGED index
        /\ \/ /\ fs' = WriteAt(fs, MetaPath(r.id), MarshalMeta(r.ct, r.size))
              /\ req' = [req EXCEPT ![i] = [r EXCEPT !.pc = "return", !.wroteMeta = TRUE]]
              /\ UNCHANGED faults
           \/ /\ faults < MaxFaults                         \* write fails
              /\ req' = [req EXCEPT ![i] = [r EXCEPT !.pc = "return"]]
              /\ faults' = faults + 1
              /\ UNCHANGED fs

\* f.Sync() (src/main.go:216-218)
Sync(i) ==
    LET r == req[i]
    IN  /\ r.pc = "sync"
        /\ UNCHANGED <<fs, index>>
        /\ \/ /\ req' = [req EXCEPT ![i] = [r EXCEPT !.pc = "close"]]
              /\ UNCHANGED faults
           \/ /\ faults < MaxFaults
              /\ req' = [req EXCEPT ![i] = [r EXCEPT !.pc = "return", !.err = "EIO"]]
              /\ faults' = faults + 1

\* f.Close() (src/main.go:219-221)
Close(i) ==
    LET r == req[i]
    IN  /\ r.pc = "close"
        /\ UNCHANGED <<fs, index>>
        /\ \/ /\ req' = [req EXCEPT ![i] = [r EXCEPT !.pc = "rename"]]
              /\ UNCHANGED faults
           \/ /\ faults < MaxFaults
              /\ req' = [req EXCEPT ![i] = [r EXCEPT !.pc = "return", !.err = "EIO"]]
              /\ faults' = faults + 1

\* Mutant: a rename that reports an error has moved the file all the same.
PublishRenamesOnFailure(i) ==
    LET r == req[i]
    IN  /\ r.pc = "rename"
        /\ UNCHANGED index
        /\ fs' = Rename(fs, TmpPath(i), FinalPath(r.id))
        /\ \/ /\ req' = [req EXCEPT ![i] = [r EXCEPT !.pc = "meta", !.renamed = TRUE]]
              /\ UNCHANGED faults
           \/ /\ faults < MaxFaults
              /\ req' = [req EXCEPT ![i] = [r EXCEPT !.pc = "return", !.err = "EIO"]]
              /\ faults' = faults + 1

\* os.Rename(tmpName, finalPath) (src/main.go:222-224)
Publish(i) ==
    LET r == req[i]
    IN  /\ r.pc = "rename"
        /\ UNCHANGED index
        /\ \/ /\ fs' = Rename(fs, TmpPath(i), FinalPath(r.id))
              /\ req' = [req EXCEPT ![i] = [r EXCEPT !.pc = "meta", !.renamed = TRUE]]
              /\ UNCHANGED faults
           \/ /\ faults < MaxFaults
              /\ req' = [req EXCEPT ![i] = [r EXCEPT !.pc = "return", !.err = "EIO"]]
              /\ faults' = faults + 1
              /\ UNCHANGED fs

\* os.WriteFile(metaPath, b, 0o644) after the rename opens the file with
\* O_CREATE|O_TRUNC (src/main.go:226-231).
MetaOpen(i) ==
    LET r == req[i]
    IN  /\ r.pc = "meta"
        /\ UNCHANGED index
        /\ \/ /\ fs' = WriteAt(fs, MetaPath(r.id), EmptyFile)
              /\ req' = [req EXCEPT ![i] = [r EXCEPT !.pc = "metawrite"]]
              /\ UNCHANGED faults
           \/ /\ faults < MaxFaults
              /\ req' = [req EXCEPT ![i] = [r EXCEPT !.pc = "return", !.err = "EIO"]]
              /\ faults' = faults + 1
              /\ UNCHANGED fs

\* os.WriteFile writes the record and closes; `return id, size, ct, nil`.
MetaWrite(i) ==
    LET r == req[i]
    IN  /\ r.pc = "metawrite"
        /\ UNCHANGED index
        /\ \/ /\ fs' = WriteAt(fs, MetaPath(r.id), MarshalMeta(r.ct, r.size))
              /\ req' = [req EXCEPT ![i] = [r EXCEPT !.pc = "return", !.wroteMeta = TRUE]]
              /\ UNCHANGED faults
           \/ /\ faults < MaxFaults
              /\ req' = [req EXCEPT ![i] = [r EXCEPT !.pc = "return", !.err = "EIO"]]
              /\ faults' = faults + 1
              /\ UNCHANGED fs

\* Mutant: the deferred function closes the file and does not remove it.
DeferredCloseOnly(files, n) == files

\* defer func() { f.Close(); os.Remove(tmpName) }() (src/main.go:165-168)
Deferred(files, n) == Remove(files, TmpPath(n))

\* putAtomicStream returns: the deferred f.Close(); os.Remove(tmpName)
\* (src/main.go:165-168) runs, then the handler answers (72-81) or, for a
\* PUT that succeeded, goes on to the index (264-275).
Return(i) ==
    LET r  == req[i]
        r1 == [r EXCEPT !.sidecar = IF r.id = <<>> THEN "" ELSE SidecarState(fs, r.id)]
    IN  /\ r.pc = "return"
        /\ fs' = Deferred(fs, i)
        /\ UNCHANGED <<index, faults>>
        /\ \/ /\ r.err # "nil"
              /\ req' = [req EXCEPT ![i] = [r1 EXCEPT !.pc = "done", !.status = 500]]
           \/ /\ r.err = "nil" /\ r.method = "POST"
              /\ req' = [req EXCEPT ![i] = [r1 EXCEPT !.pc = "done", !.status = 200]]
           \/ /\ r.err = "nil" /\ r.method = "PUT"
              /\ req' = [req EXCEPT ![i] = [r1 EXCEPT !.pc = "index"]]

\* Mutant: a failed index transaction has written the entry all the same.
IndexWritesOnFailure(i) ==
    LET r   == req[i]
        key == IndexKey(SplitN2(TrimPrefix(r.path)))
    IN  /\ r.pc = "index"
        /\ UNCHANGED fs
        /\ index' = IndexPut(index, key, MarshalEntry(r.id, r.size, r.ct))
        /\ \/ /\ req' = [req EXCEPT ![i] =
                            [r EXCEPT !.pc = "done", !.status = 201, !.indexed = TRUE]]
              /\ UNCHANGED faults
           \/ /\ faults < MaxFaults
              /\ req' = [req EXCEPT ![i] = [r EXCEPT !.pc = "done", !.status = 500]]
              /\ faults' = faults + 1

\* PUT by name: the index transaction and the answer (src/main.go:269-288).
Index(i) ==
    LET r   == req[i]
        key == IndexKey(SplitN2(TrimPrefix(r.path)))
    IN  /\ r.pc = "index"
        /\ UNCHANGED fs
        /\ \/ /\ index' = IndexPut(index, key, MarshalEntry(r.id, r.size, r.ct))
              /\ req' = [req EXCEPT ![i] =
                            [r EXCEPT !.pc = "done", !.status = 201, !.indexed = TRUE]]
              /\ UNCHANGED faults
           \/ /\ faults < MaxFaults                         \* indexDB.Update fails
              /\ req' = [req EXCEPT ![i] = [r EXCEPT !.pc = "done", !.status = 500]]
              /\ faults' = faults + 1
              /\ UNCHANGED index

(***************************************************************************)
(* Retrieval and deletion.  A retrieval changes nothing in the store, so   *)
(* its handler is a function from the store and the request to the         *)
(* response; what it opens is a published file, which no later step writes *)
(* to.                                                                     *)
(***************************************************************************)
NoResponse == [status |-> 0, body |-> <<>>, ct |-> "", etag |-> <<>>]

\* GET /objects/{id} (src/main.go:85-129); id = filepath.Base(r.URL.Path).
\* With no Content-Type header set, http.ServeContent sniffs the content.
ServeObject(files, id) ==
    IF ~IdReMatch(id) THEN [NoResponse EXCEPT !.status = 400]
    ELSE IF ~Exists(files, FinalPath(id)) THEN [NoResponse EXCEPT !.status = 404]
    ELSE LET content == files[FinalPath(id)]
             side    == SidecarState(files, id)
             ctype   == IF side = "absent" THEN "application/octet-stream"
                        ELSE IF side = "whole"
                                /\ Unmarshal(files[MetaPath(id)]).content_type # ""
                             THEN Unmarshal(files[MetaPath(id)]).content_type
                             ELSE DetectContentType(content)
         IN  [NoResponse EXCEPT !.status = 200, !.body = content, !.ct = ctype]

\* Mutant: a missing blob is answered like a missing key.
ServeNamedBlobMissing404(files, idx, path) ==
    LET parts == SplitN2(TrimPrefix(path))
    IN  IF Len(parts) # 2 THEN [NoResponse EXCEPT !.status = 400]
        ELSE IF IndexKey(parts) \notin DOMAIN idx \/ ~UnmarshalOk(idx[IndexKey(parts)])
             THEN [NoResponse EXCEPT !.status = 404]
        ELSE LET entry == Unmarshal(idx[IndexKey(parts)])
             IN  IF ~Exists(files, FinalPath(entry.sha))
                 THEN [NoResponse EXCEPT !.status = 404]
                 ELSE [NoResponse EXCEPT !.status = 200,
                                         !.body = files[FinalPath(entry.sha)],
                                         !.ct = entry.content_type, !.etag = entry.sha]

\* GET /{bucket}/{key} (src/main.go:248-258, 289-316)
ServeNamed(files, idx, path) ==
    LET parts == SplitN2(TrimPrefix(path))
    IN  IF Len(parts) # 2 THEN [NoResponse EXCEPT !.status = 400]
        ELSE IF IndexKey(parts) \notin DOMAIN idx \/ ~UnmarshalOk(idx[IndexKey(parts)])
             THEN [NoResponse EXCEPT !.status = 404]
        ELSE LET entry == Unmarshal(idx[IndexKey(parts)])
             IN  IF ~Exists(files, FinalPath(entry.sha))
                 THEN [NoResponse EXCEPT !.status = 500]
                 ELSE [NoResponse EXCEPT !.status = 200,
                                         !.body = files[FinalPath(entry.sha)],
                                         !.ct = entry.content_type, !.etag = entry.sha]

\* The ids GET /objects/{id} is asked for: the digest of every body and ids
\* that idRe rejects: too short, the parent directory, 64 characters with
\* one outside the hex alphabet (upper case, a dot), 65 hex characters.
RequestIds ==
    {HexSum(b) : b \in Bodies}
        \cup { <<"a", "b">>, <<".", ".">> }
        \cup { [HexSum(Upload) EXCEPT ![1] = c] : c \in {"A", "."} }
        \cup { HexSum(Upload) \o <<"0">> }

\* The files GET /objects/{id} opens: os.Open of the blob (src/main.go:97-98)
\* and, when that succeeded, os.ReadFile of the sidecar (110-111).
Opened(files, id) ==
    IF ~IdReMatch(id) THEN {}
    ELSE IF ~Exists(files, FinalPath(id)) THEN {FinalPath(id)}
    ELSE {FinalPath(id), MetaPath(id)}

GetObject(id) ==
    /\ ServeObject(fs, id).status \in {200, 400, 404}
    /\ UNCHANGED vars

GetNamed(path) ==
    /\ ServeNamed(fs, index, path).status \in {200, 400, 404, 500}
    /\ UNCHANGED vars

\* Mutant: deleting a name also removes the blob its entry references.
DeleteNamedAndBlob(path) ==
    LET parts == SplitN2(TrimPrefix(path))
    IN  /\ UNCHANGED req
        /\ \/ /\ Len(parts) # 2
              /\ UNCHANGED <<fs, index, faults>>
           \/ /\ Len(parts) = 2
              /\ index' = IndexDelete(index, IndexKey(parts))
              /\ fs' = IF IndexKey(parts) \in DOMAIN index
                       THEN Remove(fs, FinalPath(Unmarshal(index[IndexKey(parts)]).sha))
                       ELSE fs
              /\ UNCHANGED faults
           \/ /\ Len(parts) = 2
              /\ faults < MaxFaults
              /\ faults' = faults + 1
              /\ UNCHANGED <<fs, index>>

\* DELETE /{bucket}/{key} (src/main.go:248-258, 317-327): 400, 204 or 500
DeleteNamed(path) ==
    LET parts == SplitN2(TrimPrefix(path))
    IN  /\ UNCHANGED <<fs, req>>
        /\ \/ /\ Len(parts) # 2
              /\ UNCHANGED <<index, faults>>
           \/ /\ Len(parts) = 2
              /\ index' = IndexDelete(index, IndexKey(parts))
              /\ UNCHANGED faults
           \/ /\ Len(parts) = 2
              /\ faults < MaxFaults                         \* indexDB.Update fails
              /\ faults' = faults + 1
              /\ UNCHANGED index

(***************************************************************************)
(* The store under any interleaving of its requests.                       *)
(***************************************************************************)
Next ==
    \/ \E i \in Reqs : Start(i)
    \/ \E i \in Reqs : Sniff(i)
    \/ \E i \in Reqs : Copy(i)
    \/ \E i \in Reqs : Stat(i)
    \/ \E i \in Reqs : StatMeta(i)
    \/ \E i \in Reqs : Heal(i)
    \/ \E i \in Reqs : HealWrite(i)
    \/ \E i \in Reqs : Sync(i)
    \/ \E i \in Reqs : Close(i)
    \/ \E i \in Reqs : Publish(i)
    \/ \E i \in Reqs : MetaOpen(i)
    \/ \E i \in Reqs : MetaWrite(i)
    \/ \E i \in Reqs : Return(i)
    \/ \E i \in Reqs : Index(i)
    \/ \E id \in RequestIds : GetObject(id)
    \/ \E path \in NamedPaths : GetNamed(path)
    \/ \E path \in NamedPaths : DeleteNamed(path)

Spec == Init /\ [][Next]_vars

\* The store left to itself, plus blobs lost behind its back (a file removed
\* from storeDir by something other than the store): the only way an index
\* entry can come to reference a blob that is missing.
BlobLost ==
    /\ \E p \in {q \in DOMAIN fs : q.dir = "store" /\ q.ext = ".blob"} : fs' = Remove(fs, p)
    /\ UNCHANGED <<index, req, faults>>

SpecCorrupt == Init /\ [][Next \/ BlobLost]_vars

(***************************************************************************)
(* Vocabulary of the properties.                                           *)
(***************************************************************************)
Blobs(files) == {p \in DOMAIN files : p.dir = "store" /\ p.ext = ".blob"}
Staging(files) == {p \in DOMAIN files : p.dir = "tmp"}

\* The bytes the request's stream has delivered.
Received(r) == SubSeq(r.body, 1, r.off)

\* The request is inside putAtomicStream, after CreateTemp.
InPut(r) ==
    r.pc \in {"sniff", "copy", "stat", "statmeta", "heal", "healwrite", "sync",
              "close", "rename", "meta", "metawrite", "return"}

\* putAtomicStream has returned id, size, ct, nil to the handler.
ReturnedOk(r) == r.pc \in {"index", "done"} /\ r.err = "nil" /\ r.sawFinal # ""

\* The handler has answered 200 (POST) or 201 (PUT).
Answered2xx(r) == r.pc = "done" /\ r.status \in {200, 201}

\* The client's connection broke before the body was complete.
Interrupted(r) == r.conn # "ok"

KeyOf(path) == IndexKey(SplitN2(TrimPrefix(path)))

\* The path does not split, on the first "/", into two non-empty segments.
Malformed(path) ==
    LET parts == SplitN2(TrimPrefix(path))
    IN  Len(parts) # 2 \/ Len(parts[1]) = 0 \/ Len(parts[2]) = 0

(***************************************************************************)
(* C1 - Atomic publication.  A file at a final blob path <d>.blob holds    *)
(* the complete content whose SHA-256 is d, so that is all a reader of     *)
(* GET /objects/d is served; and a final blob path comes into existence    *)
(* only by the rename step of an upload whose staging file holds every     *)
(* byte its stream delivered, the stream having been read to its end.      *)
(***************************************************************************)
C1_Step ==
    \A p \in Blobs(fs') :
        /\ HexSum(fs'[p]) = p.base
        /\ HexSum(ServeObject(fs', p.base).body) = p.base
        /\ p \notin DOMAIN fs =>
              \E i \in Reqs :
                  /\ req[i].pc = "rename" /\ req'[i].pc = "meta"
                  /\ p = FinalPath(req[i].id)
                  /\ fs'[p] = fs[TmpPath(i)]
                  /\ fs[TmpPath(i)] = Received(req[i])
                  /\ req[i].sawEOF

C1_AtomicPublication == [][C1_Step]_vars

\* A published blob is being served while another upload holds a staging
\* file with only part of its body.
C1_Witness ==
    \E i, j \in Reqs :
        /\ req[i].renamed
        /\ ServeObject(fs, req[i].id).status = 200
        /\ req[j].pc = "copy" /\ req[j].conn = "ok"
        /\ Len(fs[TmpPath(j)]) > 0
        /\ Len(fs[TmpPath(j)]) < Len(req[j].body)

(***************************************************************************)
(* C2 - Idempotent dedup, as claimed: for every byte sequence b, every put *)
(* of b that meets no failure succeeds with the digest of b, afterwards    *)
(* one blob for that digest exists with content b, and a put that found    *)
(* the final path present renamed nothing.  (Stated for runs with no       *)
(* injected failure, so that only the code decides it.)                    *)
(***************************************************************************)
C2_PutOf(r) == r.pc = "done" /\ (r.method = "POST" \/ PathOk(r.path))

C2_Dedup(r) ==
    /\ r.status \in {200, 201}
    /\ r.id = HexSum(r.body)
    /\ Cardinality({p \in Blobs(fs) : fs[p] = r.body}) = 1
    /\ Exists(fs, FinalPath(r.id)) /\ fs[FinalPath(r.id)] = r.body
    /\ r.sawFinal = "present" => ~r.renamed

C2_IdempotentDedup ==
    faults = 0 => \A i \in Reqs : C2_PutOf(req[i]) => C2_Dedup(req[i])

\* The same statement for the bodies that are not empty (holds).
C2_DedupNonEmpty ==
    faults = 0 => \A i \in Reqs :
        C2_PutOf(req[i]) /\ Len(req[i].body) > 0 => C2_Dedup(req[i])

(***************************************************************************)
(* C3 - Determinism and round trip.  When putAtomicStream returns without  *)
(* error for a stream that delivered the bytes b, the digest it returns is *)
(* the SHA-256 of b, the size is len(b), and GET /objects/<digest> answers *)
(* 200 with exactly b.                                                     *)
(***************************************************************************)
C3_RoundTrip ==
    \A i \in Reqs :
        ReturnedOk(req[i]) =>
            /\ req[i].id = HexSum(Received(req[i]))
            /\ req[i].size = Len(Received(req[i]))
            /\ ServeObject(fs, req[i].id).status = 200
            /\ ServeObject(fs, req[i].id).body = Received(req[i])

\* An uninterrupted upload of a body longer than the sniff buffer was
\* answered 200.
C3_Witness ==
    \E i \in Reqs :
        /\ Answered2xx(req[i]) /\ req[i].conn = "ok"
        /\ Len(req[i].body) > SniffLen
        /\ ServeObject(fs, req[i].id).body = req[i].body

(***************************************************************************)
(* C4 - No partial visibility, as claimed: an upload whose connection      *)
(* broke before the body was complete publishes no blob, writes no sidecar *)
(* and writes no index entry.                                              *)
(***************************************************************************)
C4_NoPartialVisibility ==
    \A i \in Reqs :
        Interrupted(req[i]) =>
            /\ ~req[i].renamed
            /\ ~req[i].wroteMeta
            /\ ~req[i].indexed

(***************************************************************************)
(* C5 - Staging-file cleanup.  Every staging file is the one of an upload  *)
(* that is still inside putAtomicStream, so once no upload is in flight    *)
(* the staging directory is empty; and the name of a staging file is no id *)
(* the retrieval handler serves.                                           *)
(***************************************************************************)
C5_StagingCleanup ==
    /\ \A p \in Staging(fs) : \E i \in Reqs : p = TmpPath(i) /\ InPut(req[i])
    /\ \A i \in Reqs : ServeObject(fs, TmpPath(i).base).status = 400

\* Both uploads are over: one failed after writing to its staging file, the
\* other succeeded, and nothing is left in the staging directory.
C5_Witness ==
    /\ \A i \in Reqs : req[i].pc = "done"
    /\ \E i \in Reqs : req[i].status = 500 /\ req[i].off > 0
    /\ \E i \in Reqs : req[i].status \in {200, 201}
    /\ Staging(fs) = {}

(***************************************************************************)
(* C6 - Blob immutability.  No step of the store removes a published blob  *)
(* or changes its content: not a later or concurrent publish of the same   *)
(* digest, not a retrieval, not a delete by name.                          *)
(***************************************************************************)
C6_Step == \A p \in Blobs(fs) : p \in DOMAIN fs' /\ fs'[p] = fs[p]

C6_BlobImmutable == [][C6_Step]_vars

\* Two uploads have both renamed onto the same final path, and a name that
\* referenced the blob has been deleted; the blob is still there.
C6_Witness ==
    \E i, j \in Reqs :
        /\ i # j
        /\ req[i].renamed /\ req[j].renamed /\ req[i].id = req[j].id
        /\ req[i].indexed /\ KeyOf(req[i].path) \notin DOMAIN index
        /\ Exists(fs, FinalPath(req[i].id))

(***************************************************************************)
(* C7 - At most one write per content, as claimed: among the uploads of    *)
(* one content at most one renames its staging file onto the final path.   *)
(***************************************************************************)
C7_AtMostOneRename ==
    \A i, j \in Reqs :
        (i # j /\ req[i].renamed /\ req[j].renamed) => req[i].id # req[j].id

(***************************************************************************)
(* C7, amended - Uploads of the same bytes return the same id every time,  *)
(* and an upload renames only if the final path was absent when it ran its *)
(* existence check: once the blob is published, every upload whose check   *)
(* comes later renames nothing.  (Uploads whose checks all come before the *)
(* first rename may each rename, all with the same bytes.)                 *)
(***************************************************************************)
C7_RenameOnlyIfAbsent ==
    /\ \A i \in Reqs : req[i].renamed => req[i].sawFinal = "absent"
    /\ \A i \in Reqs : req[i].pc \in {"sync", "close", "rename"} => req[i].sawFinal = "absent"
    /\ \A i, j \in Reqs :
          (ReturnedOk(req[i]) /\ ReturnedOk(req[j]) /\ Received(req[i]) = Received(req[j]))
              => req[i].id = req[j].id

\* Two uploads of the same bytes both succeeded: one published the blob,
\* the other found it and renamed nothing.
C7_Witness ==
    \E i, j \in Reqs :
        /\ Answered2xx(req[i]) /\ Answered2xx(req[j])
        /\ req[i].renamed /\ ~req[j].renamed /\ req[j].sawFinal = "present"
        /\ req[i].id = req[j].id

(***************************************************************************)
(* C8 - Naming independence.  Two successful puts of the same bytes under  *)
(* two names wrote entries that reference one digest; a step that removes  *)
(* an index entry leaves every file and every other entry as it was; and   *)
(* every name in the index resolves to the blob its entry references.      *)
(***************************************************************************)
C8_Step ==
    /\ \A k \in DOMAIN index \ DOMAIN index' :
          /\ fs' = fs
          /\ \A k2 \in DOMAIN index \ {k} : k2 \in DOMAIN index' /\ index'[k2] = index[k2]
    /\ \A i, j \in Reqs :
          (req'[i].indexed /\ req'[j].indexed /\ Received(req'[i]) = Received(req'[j]))
              => req'[i].id = req'[j].id
    /\ \A p \in NamedPaths :
          (PathOk(p) /\ KeyOf(p) \in DOMAIN index') =>
              /\ ServeNamed(fs', index', p).status = 200
              /\ HexSum(ServeNamed(fs', index', p).body) = Unmarshal(index'[KeyOf(p)]).sha

C8_NamingIndependence == [][C8_Step]_vars

\* The same bytes were put under two names, one name has been deleted, and
\* the other still resolves to those bytes.
C8_Witness ==
    \E i, j \in Reqs :
        /\ i # j
        /\ req[i].indexed /\ req[j].indexed
        /\ req[i].body = req[j].body /\ req[i].id = req[j].id
        /\ KeyOf(req[i].path) # KeyOf(req[j].path)
        /\ KeyOf(req[i].path) \notin DOMAIN index
        /\ KeyOf(req[j].path) \in DOMAIN index
        /\ ServeNamed(fs, index, req[j].path).status = 200
        /\ ServeNamed(fs, index, req[j].path).body = req[j].body

(***************************************************************************)
(* C9 - Self-healing sidecar, as claimed: an upload that took the          *)
(* idempotent path while the blob had no sidecar, and returned success,    *)
(* leaves a whole sidecar record with its media type and size in place     *)
(* when it returns.  (sidecar is what was at metaPath when it returned.)   *)
(***************************************************************************)
C9_SelfHealing ==
    \A i \in Reqs :
        (ReturnedOk(req[i]) /\ req[i].sawFinal = "present" /\ req[i].sawMeta = "absent")
            => req[i].sidecar = "whole"

(***************************************************************************)
(* C10 - Error taxonomy of get_named.  A GET for a well-formed name with   *)
(* no index entry is answered 404; a GET for a name whose entry references *)
(* a blob that is missing is answered with a 5xx status, never 404.        *)
(***************************************************************************)
C10_GetNamedTaxonomy ==
    \A p \in NamedPaths :
        PathOk(p) =>
            /\ KeyOf(p) \notin DOMAIN index => ServeNamed(fs, index, p).status = 404
            /\ (/\ KeyOf(p) \in DOMAIN index
                /\ ~Exists(fs, FinalPath(Unmarshal(index[KeyOf(p)]).sha)))
                  => ServeNamed(fs, index, p).status \in 500..599

\* One name has an entry whose blob is gone, another name has no entry.
C10_Witness ==
    \E p, q \in NamedPaths :
        /\ PathOk(p) /\ PathOk(q)
        /\ KeyOf(p) \in DOMAIN index
        /\ ~Exists(fs, FinalPath(Unmarshal(index[KeyOf(p)]).sha))
        /\ ServeNamed(fs, index, p).status = 500
        /\ KeyOf(q) \notin DOMAIN index
        /\ ServeNamed(fs, index, q).status = 404

(***************************************************************************)
(* C11 - Malformed named paths, as claimed: a request whose path does not  *)
(* split into two non-empty segments (no separator, empty bucket or empty  *)
(* key) is answered with a client error, starts no upload, and no index    *)
(* entry exists under what it names.                                       *)
(***************************************************************************)
C11_MalformedRejected ==
    /\ \A i \in Reqs :
          (req[i].pc # "idle" /\ req[i].method = "PUT" /\ Malformed(req[i].path))
              => /\ req[i].pc = "done"
                 /\ req[i].status \in 400..499
                 /\ ~req[i].indexed
    /\ \A p \in NamedPaths :
          Malformed(p) => ServeNamed(fs, index, p).status \in 400..499

\* The part of C11 the code keeps: a path with no separator is answered 400
\* and starts no upload (holds).
C11_NoSeparatorRejected ==
    /\ \A i \in Reqs :
          (req[i].pc # "idle" /\ req[i].method = "PUT" /\ ~PathOk(req[i].path))
              => /\ req[i].pc = "done" /\ req[i].status = 400
                 /\ ~req[i].indexed /\ ~req[i].renamed
    /\ \A p \in NamedPaths : ~PathOk(p) => ServeNamed(fs, index, p).status = 400

(***************************************************************************)
(* C12 - Malformed-id rejection.  A GET /objects/{id} whose id is not      *)
(* exactly 64 lowercase hex characters is answered 400 and opens no file;  *)
(* every file the retrieval handler opens is <64 hex>.blob or              *)
(* <64 hex>.meta.json in the storage directory.                            *)
(***************************************************************************)
C12_MalformedIdRejected ==
    \A id \in RequestIds :
        /\ (Len(id) # 64 \/ \E k \in 1..Len(id) : id[k] \notin HexChars)
              => /\ ServeObject(fs, id).status = 400
                 /\ Opened(fs, id) = {}
        /\ \A p \in Opened(fs, id) :
              /\ p.dir = "store"
              /\ p.ext \in {".blob", ".meta.json"}
              /\ Len(p.base) = 64
              /\ \A k \in 1..64 : p.base[k] \in HexChars

\* A blob is stored and served under its digest, while the parent directory
\* and a digest with its first character replaced by a dot are refused.
C12_Witness ==
    \E b \in Bodies :
        /\ ServeObject(fs, HexSum(b)).status = 200
        /\ Opened(fs, HexSum(b)) = {FinalPath(HexSum(b)), MetaPath(HexSum(b))}
        /\ ServeObject(fs, <<".", ".">>).status = 400
        /\ ServeObject(fs, [HexSum(Upload) EXCEPT ![1] = "."]).status = 400

(***************************************************************************)
(* C13 - Client input errors, as claimed: an upload with an empty body     *)
(* that meets no failure is answered with a 4xx status and has published   *)
(* nothing, written no sidecar and no index entry, and left no staging     *)
(* file.                                                                   *)
(***************************************************************************)
C13_EmptyBodyClientError ==
    \A i \in Reqs :
        (/\ req[i].pc = "done" /\ faults = 0
         /\ (req[i].method = "POST" \/ PathOk(req[i].path))
         /\ req[i].conn = "ok" /\ Len(req[i].body) = 0)
            => /\ req[i].status \in 400..499
               /\ ~req[i].renamed /\ ~req[i].wroteMeta /\ ~req[i].indexed
               /\ TmpPath(i) \notin DOMAIN fs

\* The part of C13 the code keeps: the empty upload is refused and leaves
\* the store as it was (holds); only the status is not a client error.
C13_EmptyBodyNoChange ==
    \A i \in Reqs :
        (/\ req[i].pc = "done" /\ faults = 0
         /\ (req[i].method = "POST" \/ PathOk(req[i].path))
         /\ req[i].conn = "ok" /\ Len(req[i].body) = 0)
            => /\ req[i].status = 500
               /\ ~req[i].renamed /\ ~req[i].wroteMeta /\ ~req[i].indexed
               /\ TmpPath(i) \notin DOMAIN fs

(***************************************************************************)
(* C14 - Storage failure gives no partial visibility, as claimed: an       *)
(* upload that putAtomicStream ended with a storage error (staging write,  *)
(* sync, close, rename or sidecar write) and that was answered 500 has     *)
(* published no blob and written no sidecar file, and its staging file is  *)
(* gone.                                                                   *)
(***************************************************************************)
C14_StorageFailureInvisible ==
    \A i \in Reqs :
        (req[i].pc = "done" /\ req[i].status = 500 /\ req[i].err = "EIO")
            => /\ ~req[i].renamed
               /\ TmpPath(i) \notin DOMAIN fs

(***************************************************************************)
(* C15 - Index transaction failure.  When the index transaction of a PUT   *)
(* by name fails the request is answered 500 and the index is exactly what *)
(* it was; and an index entry is written or changed only by the index step *)
(* of a PUT whose putAtomicStream returned without error, under that       *)
(* request's key, with the digest, size and type it returned, the blob     *)
(* being in place.                                                         *)
(***************************************************************************)
C15_Step ==
    /\ \A i \in Reqs :
          (req[i].pc = "index" /\ req'[i].pc = "done" /\ req'[i].status # 201)
              => /\ req'[i].status = 500
                 /\ ~req'[i].indexed
                 /\ index' = index
    /\ \A k \in DOMAIN index' :
          (k \notin DOMAIN index \/ index'[k] # index[k]) =>
              \E i \in Reqs :
                  /\ req[i].pc = "index" /\ req'[i].status = 201
                  /\ req[i].method = "PUT" /\ req[i].err = "nil"
                  /\ k = KeyOf(req[i].path)
                  /\ index'[k] = MarshalEntry(req[i].id, req[i].size, req[i].ct)
                  /\ Exists(fs, FinalPath(req[i].id))
                  /\ \A k2 \in DOMAIN index \ {k} :
                        k2 \in DOMAIN index' /\ index'[k2] = index[k2]

C15_IndexFailureNoWrite == [][C15_Step]_vars

\* A name holds the entry of an earlier PUT; a later PUT of other bytes under
\* the same name stored its blob, failed in the index transaction, and was
\* answered 500; the name still holds the earlier entry.
C15_Witness ==
    \E i, j \in Reqs :
        /\ i # j
        /\ req[i].indexed /\ req[i].status = 201
        /\ req[j].method = "PUT" /\ req[j].pc = "done" /\ req[j].status = 500
        /\ req[j].err = "nil" /\ req[j].sawFinal # "" /\ ~req[j].indexed
        /\ KeyOf(req[i].path) = KeyOf(req[j].path)
        /\ req[i].id # req[j].id
        /\ KeyOf(req[i].path) \in DOMAIN index
        /\ index[KeyOf(req[i].path)] = MarshalEntry(req[i].id, req[i].size, req[i].ct)

(***************************************************************************)
(* C16 - Index/blob consistency.  In every state reached by the store's    *)
(* own requests (no file removed behind its back), every index entry is a  *)
(* whole record that references a digest whose blob exists, the entry's    *)
(* size is the length of that blob, and the blob's content has that        *)
(* digest.                                                                 *)
(***************************************************************************)
C16_IndexBlobConsistent ==
    \A k \in DOMAIN index :
        /\ UnmarshalOk(index[k])
        /\ Exists(fs, FinalPath(Unmarshal(index[k]).sha))
        /\ Unmarshal(index[k]).size = Len(fs[FinalPath(Unmarshal(index[k]).sha)])
        /\ Unmarshal(index[k]).sha = HexSum(fs[FinalPath(Unmarshal(index[k]).sha)])

\* Two names hold entries for two different blobs, one of them longer than
\* the sniff buffer.
C16_Witness ==
    \E k1, k2 \in DOMAIN index :
        /\ Unmarshal(index[k1]).sha # Unmarshal(index[k2]).sha
        /\ Unmarshal(index[k1]).size > SniffLen
        /\ Unmarshal(index[k2]).size > 0
        /\ Len(fs[FinalPath(Unmarshal(index[k1]).sha)]) = Unmarshal(index[k1]).size

(***************************************************************************)
(* C17 - Short and empty streams, as claimed: an upload whose body is      *)
(* shorter than the sniff buffer and that meets no failure completes with  *)
(* the size of the body and the media type of the whole body, and for the  *)
(* empty body that is size 0 and application/octet-stream.                 *)
(***************************************************************************)
C17_ShortAndEmptyStreams ==
    \A i \in Reqs :
        (/\ req[i].pc = "done" /\ faults = 0
         /\ (req[i].method = "POST" \/ PathOk(req[i].path))
         /\ req[i].conn = "ok" /\ Len(req[i].body) < SniffLen)
            => /\ req[i].status \in {200, 201}
               /\ req[i].size = Len(req[i].body)
               /\ req[i].ct = (IF Len(req[i].body) = 0
                               THEN "application/octet-stream"
                               ELSE DetectContentType(req[i].body))

\* The part of C17 the code keeps: a body shorter than the sniff buffer and
\* not empty is classified whole and the upload completes (holds).
C17_ShortStreams ==
    \A i \in Reqs :
        (/\ req[i].pc = "done" /\ faults = 0
         /\ (req[i].method = "POST" \/ PathOk(req[i].path))
         /\ req[i].conn = "ok" /\ Len(req[i].body) < SniffLen /\ Len(req[i].body) > 0)
            => /\ req[i].status \in {200, 201}
               /\ req[i].size = Len(req[i].body)
               /\ req[i].ct = DetectContentType(req[i].body)

(***************************************************************************)
(* C18 - Publish ordering.  For every upload: the rename is a step taken   *)
(* from the position after a successful close, that position is reached    *)
(* only by a successful close taken from the position after a successful   *)
(* sync, the sync position only from the existence check at which the      *)
(* staging file already holds every byte of the stream, read to its end;   *)
(* from there to the rename the staging file is not written to; and what   *)
(* the rename installs at the final path is that staging file.             *)
(***************************************************************************)
C18_Step ==
    \A i \in Reqs :
        /\ (req'[i].renamed /\ ~req[i].renamed)
              => /\ req[i].pc = "rename" /\ req[i].err = "nil"
                 /\ fs'[FinalPath(req[i].id)] = fs[TmpPath(i)]
        /\ (req'[i].pc = "rename" /\ req[i].pc # "rename")
              => req[i].pc = "close" /\ req'[i].err = "nil"
        /\ (req'[i].pc = "close" /\ req[i].pc # "close")
              => req[i].pc = "sync" /\ req'[i].err = "nil"
        /\ (req'[i].pc = "sync" /\ req[i].pc # "sync")
              => /\ req[i].pc = "stat"
                 /\ req[i].sawEOF
                 /\ fs[TmpPath(i)] = Received(req[i])
        /\ req[i].pc \in {"sync", "close", "rename"}
              => /\ TmpPath(i) \in DOMAIN fs
                 /\ (TmpPath(i) \in DOMAIN fs' => fs'[TmpPath(i)] = fs[TmpPath(i)])
        /\ \A p \in Blobs(fs') \ Blobs(fs) :
              \E j \in Reqs : req[j].pc = "rename" /\ req'[j].renamed /\ p = FinalPath(req[j].id)

C18_PublishOrdering == [][C18_Step]_vars

\* An upload longer than the sniff buffer has renamed and its blob holds
\* the whole body, while another upload is synced and not yet closed.
C18_Witness ==
    \E i, j \in Reqs :
        /\ req[i].renamed /\ Len(req[i].body) > SniffLen
        /\ Exists(fs, FinalPath(req[i].id))
        /\ fs[FinalPath(req[i].id)] = req[i].body
        /\ req[j].pc = "close" /\ fs[TmpPath(j)] = req[j].body

(***************************************************************************)
(* C19 - Failure before publication.  A step at which putAtomicStream      *)
(* fails at the staging write (of the sniffed bytes or in io.Copy), at the *)
(* sync, at the close or at the rename creates no final blob path and      *)
(* leaves the upload as one that has renamed nothing; the return that      *)
(* follows removes the staging file, creates no blob, and hands the error  *)
(* to the handler, which answers 500.                                      *)
(***************************************************************************)
C19_Step ==
    \A i \in Reqs :
        /\ (/\ req[i].pc \in {"sniff", "copy", "sync", "close", "rename"}
            /\ req'[i].pc = "return" /\ req'[i].err = "EIO")
              => /\ ~req'[i].renamed
                 /\ Blobs(fs') = Blobs(fs)
                 /\ \A p \in Blobs(fs) : fs'[p] = fs[p]
        /\ (req[i].pc = "return" /\ req'[i].pc # "return")
              => /\ TmpPath(i) \notin DOMAIN fs'
                 /\ Blobs(fs') = Blobs(fs)
                 /\ (req[i].err # "nil" => req'[i].pc = "done" /\ req'[i].status = 500)
                 /\ ((req[i].err # "nil" /\ ~req[i].renamed) => ~req'[i].renamed)

C19_FailureBeforePublication == [][C19_Step]_vars

\* An upload that found no blob for its digest failed at the sync, the
\* close or the rename and was answered 500: it has renamed nothing, no blob
\* for its digest exists, and its staging file is gone.
C19_Witness ==
    \E i \in Reqs :
        /\ req[i].pc = "done" /\ req[i].status = 500 /\ req[i].err = "EIO"
        /\ req[i].sawFinal = "absent" /\ ~req[i].renamed
        /\ ~Exists(fs, FinalPath(req[i].id))
        /\ TmpPath(i) \notin DOMAIN fs

(***************************************************************************)
(* C20 - Sidecar integrity, as claimed: in every state, a sidecar file for *)
(* digest d is a whole record, the blob d exists, and the record's size is *)
(* the length of the blob.                                                 *)
(***************************************************************************)
C20_SidecarIntegrity ==
    \A p \in {q \in DOMAIN fs : q.dir = "store" /\ q.ext = ".meta.json"} :
        /\ SidecarState(fs, p.base) = "whole"
        /\ Exists(fs, FinalPath(p.base))
        /\ Unmarshal(fs[p]).size = Len(fs[FinalPath(p.base)])

\* The part of C20 the code keeps: a sidecar never exists without its blob,
\* and a sidecar that is a whole record carries the blob's length (holds).
C20_SidecarOfBlob ==
    \A p \in {q \in DOMAIN fs : q.dir = "store" /\ q.ext = ".meta.json"} :
        /\ Exists(fs, FinalPath(p.base))
        /\ SidecarState(fs, p.base) = "whole"
              => Unmarshal(fs[p]).size = Len(fs[FinalPath(p.base)])

\* When no upload is in flight and no write has failed, every sidecar is a
\* whole record (holds): the empty sidecar is seen while os.WriteFile is
\* between its open and its write, or for good after a failed write.
C20_SidecarWholeAtRest ==
    (faults = 0 /\ \A i \in Reqs : req[i].pc \in {"idle", "done"})
        => \A p \in {q \in DOMAIN fs : q.dir = "store" /\ q.ext = ".meta.json"} :
              SidecarState(fs, p.base) = "whole"
====
